---- MODULE Spec2Model ----
(***************************************************************************)
(* Model of the federation gateway (src/edcClient.js).  The EDC client:     *)
(* requestFederatedData with its promise cache edrPromiseCache, the        *)
(* handshake negotiateAndGetEdr and the polling loop fetchWithRetry.  The  *)
(* router: the handlers of /WebAPI/source/sources, of                      *)
(* /WebAPI/cohortdefinition and of /WebAPI/cohortdefinition/:id, which     *)
(* merge the records of the local WebAPI with those fetched through        *)
(* requestFederatedData.                                                   *)
(*                                                                         *)
(* JavaScript runs one task to completion at a time.  An action of this    *)
(* model is the code that runs between two suspension points (await): the  *)
(* arrival of a response, the code that handles it, and the next request   *)
(* that code issues.  Continuations of a settled promise run as microtasks *)
(* before any other task: they are queued in mq, and no other action is    *)
(* enabled while mq is not empty.                                          *)
(***************************************************************************)
EXTENDS Naturals, Sequences, FiniteSets

VARIABLES
  edrPromiseCache,  \* edrPromiseCache[ASSET_ID]: NoEntry, or the handshake whose promise is stored
  hs,               \* the runs of negotiateAndGetEdr, by identity
  calls,            \* the invocations of requestFederatedData, by slot
  waiters,          \* per handshake: the calls suspended on its promise, in attach order
  mq,               \* microtask queue: the calls whose await on a settled promise resumes next
  wire,             \* history: the last control-plane exchange (response consumed, request sent)
  inbound           \* the inbound request being served: its handler's locals and its response

vars == <<edrPromiseCache, hs, calls, waiters, mq, wire, inbound>>

----------------------------------------------------------------------------
(* Bounds of the model *)

NumCalls == 2
MaxHandshakes == 3
MaxSample == 24

(* Program constants *)

MaxRetries == 30

ASSET_ID == "ohdsi-webapi-v2"

\* id: node.sourceId * 1000000 + c.id, Math.floor(id / 1000000), id % 1000000
NAMESPACE_MULTIPLIER == 1000000

\* if (id < 1000000000): the ids the single-record handler leaves to the local WebAPI
LocalIdLimit == 1000000000

NoEntry == 0
CallIds == 1..NumCalls
HsIds == 1..MaxHandshakes

----------------------------------------------------------------------------
(* Values exchanged with the control plane and the data plane *)

NoPolicy == [defined |-> FALSE, id |-> "", permission |-> <<>>, prohibition |-> <<>>, obligation |-> <<>>]
OpenPolicy == [defined |-> TRUE, id |-> "offer-open", permission |-> <<>>, prohibition |-> <<>>, obligation |-> <<>>]
UsagePolicy == [defined |-> TRUE, id |-> "offer-usage", permission |-> <<"use">>, prohibition |-> <<"distribute">>, obligation |-> <<"log">>]

Dataset(id, policy) == [id |-> id, policy |-> policy]

\* The value of catalog["dcat:dataset"]: absent, one object, or a list.
Absent == [shape |-> "absent", items |-> <<>>]
Single(d) == [shape |-> "object", items |-> <<d>>]
List(ds) == [shape |-> "list", items |-> ds]

Catalogs ==
  { Absent,
    Single(Dataset(ASSET_ID, UsagePolicy)),
    Single(Dataset(ASSET_ID, OpenPolicy)),
    Single(Dataset(ASSET_ID, NoPolicy)),
    Single(Dataset("other-asset", UsagePolicy)),
    List(<<>>),
    List(<<Dataset("other-asset", OpenPolicy)>>),
    List(<<Dataset("other-asset", OpenPolicy), Dataset(ASSET_ID, UsagePolicy)>>),
    List(<<Dataset(ASSET_ID, OpenPolicy), Dataset(ASSET_ID, UsagePolicy)>>) }

\* An identifier read from a response's "@id": undefined when the field is missing.
NoId == [defined |-> FALSE, v |-> "undefined"]
Id(v) == [defined |-> TRUE, v |-> v]
AckIds == {Id("id-1"), NoId}

PollStates == {"FINALIZED", "STARTED", "TERMINATED", "REQUESTED"}
AgreementIds == {"agreement-X"}

NoChannel == [endpoint |-> "", authorization |-> ""]
Channels == { [endpoint |-> "https://dataplane/public", authorization |-> "token-1"],
              [endpoint |-> "https://dataplane/public", authorization |-> "token-2"] }

HttpStatuses == {200, 401, 403, 404, 500}

\* Responses.  "throw" stands for a rejected fetch or a body that is not JSON.
Throw == [kind |-> "throw"]
NoResp == [kind |-> "none"]
CatalogResp(c) == [kind |-> "catalog", dataset |-> c]
AckResp(id) == [kind |-> "ack", id |-> id]
StatusResp(s, a) == [kind |-> "status", state |-> s, contractAgreementId |-> a]
EdrResp(ch) == [kind |-> "edr", channel |-> ch]

\* Requests.  A policy key the request does not carry is a clause list with no
\* clause in it.
NoReq == [kind |-> "none"]
CatalogReq == [kind |-> "catalog"]
NegotiationReq(policy) == [kind |-> "negotiate", policy |-> policy]
PollReq(kind, id) == [kind |-> kind, id |-> id]
TransferReq(contractId) == [kind |-> "transfer", contractId |-> contractId]
EdrReq(id) == [kind |-> "edr", id |-> id]

----------------------------------------------------------------------------
(* Values of the router *)

\* The fields of a federated node the handlers read.
FEDERATED_NODES ==
  << [sourceId |-> 1001, sourceName |-> "Hospital La Paz (Federated)", sourceKey |-> "hPaz"],
     [sourceId |-> 1002, sourceName |-> "Hospital Clinico (Federated)", sourceKey |-> "hClinico"] >>

\* A source of the local WebAPI.
LocalSource == [sourceId |-> 1, sourceName |-> "Local CDM", sourceKey |-> "LOCAL"]

\* A cohort definition.  A name is the sequence of the pieces of its text, so that a
\* template literal is the concatenation of its pieces.
Cohort(id, name) == [id |-> id, name |-> <<name>>, createdBy |-> "admin"]

\* What the local WebAPI answers to the listings.
LocalSourceLists == { <<>>, <<LocalSource>> }
LocalCohortLists == { <<>>, <<Cohort(5, "Asthma")>> }

\* What the remote WebAPI answers, through the data plane, to /cohortdefinition and to
\* /cohortdefinition/<originalId>.
RemoteCohortLists ==
  { <<>>,
    <<Cohort(7, "Diabetes")>>,
    <<Cohort(999999, "Stroke"), Cohort(NAMESPACE_MULTIPLIER, "Sepsis")>> }
RemoteDefs == { Cohort(7, "Diabetes") }

\* The answer of the local WebAPI to a fetch: a success with its list, a response
\* that is not a success, or no response (the fetch throws).
NoLocalRes == [kind |-> "none", items |-> <<>>]
LocalOk(items) == [kind |-> "ok", items |-> items]
LocalNotOk == [kind |-> "notOk", items |-> <<>>]
LocalThrow == [kind |-> "throw", items |-> <<>>]
LocalResponses(lists) == {LocalOk(items) : items \in lists} \cup {LocalNotOk, LocalThrow}

\* req.params.id: whether it is made of digits only, and the number it then reads as.
IdStr(n) == [digits |-> TRUE, n |-> n]
NotANumber == [digits |-> FALSE, n |-> 0]
RequestIds ==
  { 5, NAMESPACE_MULTIPLIER - 1, NAMESPACE_MULTIPLIER, 5 * NAMESPACE_MULTIPLIER + 3,
    LocalIdLimit - 1, LocalIdLimit, 1001 * NAMESPACE_MULTIPLIER + 7,
    1002 * NAMESPACE_MULTIPLIER, 1002 * NAMESPACE_MULTIPLIER + 999999,
    1003 * NAMESPACE_MULTIPLIER }
IdStrs == {IdStr(n) : n \in RequestIds} \cup {NotANumber}

\* req.path under /WebAPI, as the sequence of the pieces of its text: "/", the
\* sourceKeys, and the other pieces.  A substring test is a test on the pieces.
SearchPath(key) == <<"/", "vocabulary", "/", key, "/", "search">>
GeneratePath(key) == <<"/", "cohortdefinition", "/", "1", "/", "generate", "/", key>>
UrlPaths ==
  { SearchPath("hPaz"), SearchPath("EUNOMIA"), GeneratePath("hClinico"),
    GeneratePath("EUNOMIA"), <<"/", "vocabulary", "/", "search">> }

\* The paths of the requests the handlers pass on with next().
ListingPath == <<"/", "cohortdefinition">>
DefinitionPath == <<"/", "cohortdefinition", "/", "{id}">>

\* Math.floor(Math.random() * 10000)
JobIds == {0, 9999}

\* What the remote WebAPI answers, through the data plane, to a path with a sourceKey.
RemoteData == { <<"concept">> }

----------------------------------------------------------------------------
(* State *)

Unused == [pc |-> "unused", i |-> 0, id |-> NoId, edr |-> NoChannel, err |-> "", sent |-> <<>>]
Idle == [pc |-> "idle", h |-> NoEntry, edr |-> NoChannel, status |-> 0, err |-> ""]

\* No inbound request.  route: the handler ("use": the middleware of /WebAPI); pc:
\* where it is suspended ("local": on the fetch from the local WebAPI, "node": on
\* requestFederatedData in the loop over the nodes, "remote": on requestFederatedData
\* for one definition or one path), that it called next() ("next"), or how the
\* request ended ("done": with a response of the gateway, "proxied": handed to the
\* proxy towards the local WebAPI).  k: the index of the node of the
\* loop.  status, body: the response.  History: localRes, how the local WebAPI
\* answered; fetched, per node of the loop whether requestFederatedData returned and
\* what; path, the last pathSuffix given to requestFederatedData; requests, the
\* number of calls of requestFederatedData made for this request; base, the number
\* of handshakes that had been started when the request arrived.
NoRequest ==
  [route |-> "none", pc |-> "idle", urlPath |-> <<>>, idStr |-> NotANumber, k |-> 0, node |-> <<>>,
   localCohorts |-> <<>>, federatedCohorts |-> <<>>, status |-> 0, body |-> <<>>,
   localRes |-> NoLocalRes, fetched |-> <<>>, path |-> <<>>, requests |-> 0, base |-> 0]

Pending == {"catalog", "negotiate", "pollNeg", "transfer", "pollTrans", "edr"}
Settled == {"resolved", "rejected"}
Finished == {"idle", "returned", "failed"}

\* One step of handshake h: resp answers the request of phase `phase` and req is what
\* h sends on it.  When resp is a status, n is its ordinal among the statuses of the
\* polling loop; polls is the number of status requests the loop has issued so far.
Exchange(h, phase, resp, n, req, polls) ==
  [h |-> h, phase |-> phase, resp |-> resp, n |-> n, req |-> req, polls |-> polls]

\* The client when the module is loaded.
ClientInit ==
  /\ edrPromiseCache = NoEntry
  /\ hs = [h \in HsIds |-> Unused]
  /\ calls = [c \in CallIds |-> Idle]
  /\ waiters = [h \in HsIds |-> <<>>]
  /\ mq = <<>>
  /\ wire = Exchange(NoEntry, "none", NoResp, 0, NoReq, 0)

Init ==
  /\ ClientInit
  /\ inbound = NoRequest

\* The log of request kinds a handshake has sent, repeated polls written once.
Log(sent, kind) ==
  IF sent # <<>> /\ sent[Len(sent)] = kind THEN sent ELSE Append(sent, kind)

----------------------------------------------------------------------------
(* Pure parts of the code *)

\* Mutant: a promise that has resolved is not reused.
IsCacheMiss_ResolvedCountsAsMiss(cache) == cache = NoEntry \/ hs[cache].pc = "resolved"

\* requestFederatedData: if (!edrPromiseCache[ASSET_ID])
IsCacheMiss(cache) == cache = NoEntry

\* dataset.find(d => d["@id"] === ASSET_ID): the first match, or nothing
RECURSIVE ArrayFind(_)
ArrayFind(items) ==
  IF items = <<>> THEN <<>>
  ELSE IF items[1].id = ASSET_ID THEN <<items[1]>>
  ELSE ArrayFind(Tail(items))

\* let dataset = catalog["dcat:dataset"]; if (Array.isArray(dataset)) dataset = dataset.find(...)
\* The result is a sequence holding the dataset, empty when it is undefined.
SelectDataset(ds) ==
  IF ds.shape = "list" THEN ArrayFind(ds.items) ELSE ds.items

\* Mutant: the @id of the selected dataset is not compared with ASSET_ID.
AssetFound_AnyDataset(sel) == sel # <<>>

\* the negation of: if (!dataset || dataset["@id"] !== ASSET_ID) throw
AssetFound(sel) == sel # <<>> /\ sel[1].id = ASSET_ID

\* the policy object of the ContractRequest body
OfferPolicy(policy) ==
  [id |-> policy.id, type |-> "Offer", assigner |-> "provider", target |-> ASSET_ID,
   permission |-> <<>>, prohibition |-> <<>>, obligation |-> <<>>]

\* fetchWithRetry: if (data.state === "FINALIZED" || data.state === "STARTED") return data
IsDone(state) == state = "FINALIZED" \/ state = "STARTED"

\* Mutant: the loop runs once more (i <= maxRetries).
LoopContinues_OffByOne(i) == i <= MaxRetries

\* fetchWithRetry: the loop condition i < maxRetries
LoopContinues(i) == i < MaxRetries

\* Mutant: the attempt counter is not advanced.
NextAttempt_Stuck(i) == i

\* fetchWithRetry: i++
NextAttempt(i) == i + 1

\* Mutant: the transfer request is skipped after the negotiation is polled.
AfterPolling_SkipsTransfer(phase) == "edr"

\* negotiateAndGetEdr: what follows each fetchWithRetry call
AfterPolling(phase) == IF phase = "pollNeg" THEN "transfer" ELSE "edr"

\* Mutant: the catch handler rethrows without deleting the entry.
CacheAfterHandshakeFailure_KeepsEntry(cache) == cache

\* the catch handler of the cached promise: delete edrPromiseCache[ASSET_ID]
CacheAfterHandshakeFailure(cache) == NoEntry

\* Mutant: every response that is not a success clears the cache.
IsAuthRejection_AnyFailure(status) == TRUE

\* Mutant: only 401 clears the cache.
IsAuthRejection_Only401(status) == status = 401

\* requestFederatedData: if (result.status === 401 || result.status === 403)
IsAuthRejection(status) == status = 401 \/ status = 403

\* Mutant: after a 401 or 403 the call sends the data-plane request again.
AfterHttpError_Resends(status) == IF status = 401 \/ status = 403 THEN "fetch" ELSE "failed"

\* requestFederatedData: if (!result.ok) { ... throw new Error(...) }
AfterHttpError(status) == "failed"

\* requestFederatedData: result.ok
IsOk(status) == status >= 200 /\ status <= 299

----------------------------------------------------------------------------
(* negotiateAndGetEdr *)

\* negotiateAndGetEdr throws: the catch handler of the cached promise runs, then
\* the calls awaiting that promise resume.
Reject(h, err, resp) ==
  /\ hs' = [hs EXCEPT ![h] = [Unused EXCEPT !.pc = "rejected", !.err = err, !.sent = hs[h].sent]]
  /\ edrPromiseCache' = CacheAfterHandshakeFailure(edrPromiseCache)
  /\ mq' = waiters[h]
  /\ waiters' = [waiters EXCEPT ![h] = <<>>]
  /\ wire' = Exchange(h, hs[h].pc, resp, IF resp.kind = "status" THEN hs[h].i + 1 ELSE 0, NoReq,
                      IF resp.kind = "status" THEN hs[h].i + 1 ELSE 0)
  /\ UNCHANGED <<calls, inbound>>

\* negotiateAndGetEdr goes on: it sends req and suspends in phase pc.
Proceed(h, pc, i, id, resp, req, polls) ==
  /\ hs' = [hs EXCEPT ![h] = [pc |-> pc, i |-> i, id |-> id, edr |-> NoChannel, err |-> "",
                               sent |-> Log(hs[h].sent, req.kind)]]
  /\ wire' = Exchange(h, hs[h].pc, resp, IF resp.kind = "status" THEN hs[h].i + 1 ELSE 0, req, polls)
  /\ UNCHANGED <<edrPromiseCache, calls, waiters, mq, inbound>>

\* 1. the catalog arrives; 2. the contract request is sent
CatalogResponse(h, r) ==
  /\ mq = <<>>
  /\ hs[h].pc = "catalog"
  /\ IF r.kind = "throw" THEN Reject(h, "Other", r)
     ELSE LET sel == SelectDataset(r.dataset) IN
          IF ~AssetFound(sel) THEN Reject(h, "NotFound", r)
          ELSE IF ~sel[1].policy.defined THEN Reject(h, "Other", r)
          ELSE Proceed(h, "negotiate", 0, NoId, r, NegotiationReq(OfferPolicy(sel[1].policy)), 0)

\* the acknowledgement of the contract request arrives; 3. fetchWithRetry issues its first fetch
NegotiationResponse(h, r) ==
  /\ mq = <<>>
  /\ hs[h].pc = "negotiate"
  /\ IF r.kind = "throw" THEN Reject(h, "Other", r)
     ELSE Proceed(h, "pollNeg", 0, r.id, r, PollReq("pollNeg", r.id), 1)

\* fetchWithRetry: a status arrives.  Either the loop returns and the handshake
\* sends its next request, or the loop waits delayMs and fetches again, or it throws.
PollResponse(h, r) ==
  /\ mq = <<>>
  /\ hs[h].pc \in {"pollNeg", "pollTrans"}
  /\ IF r.kind = "throw" THEN Reject(h, "Other", r)
     ELSE IF IsDone(r.state)
     THEN IF AfterPolling(hs[h].pc) = "transfer"
          THEN Proceed(h, "transfer", 0, NoId, r, TransferReq(r.contractAgreementId), hs[h].i + 1)
          ELSE Proceed(h, "edr", 0, hs[h].id, r, EdrReq(hs[h].id), hs[h].i + 1)
     ELSE IF LoopContinues(hs[h].i + 1)
          THEN Proceed(h, hs[h].pc, NextAttempt(hs[h].i), hs[h].id, r, PollReq(hs[h].pc, hs[h].id), hs[h].i + 2)
          ELSE Reject(h, "Timeout", r)

\* the acknowledgement of the transfer request arrives; 5. fetchWithRetry issues its first fetch
TransferResponse(h, r) ==
  /\ mq = <<>>
  /\ hs[h].pc = "transfer"
  /\ IF r.kind = "throw" THEN Reject(h, "Other", r)
     ELSE Proceed(h, "pollTrans", 0, r.id, r, PollReq("pollTrans", r.id), 1)

\* 6. the data address arrives: negotiateAndGetEdr returns it and the cached promise resolves
EdrResponse(h, r) ==
  /\ mq = <<>>
  /\ hs[h].pc = "edr"
  /\ IF r.kind = "throw" THEN Reject(h, "Other", r)
     ELSE /\ hs' = [hs EXCEPT ![h] = [Unused EXCEPT !.pc = "resolved", !.edr = r.channel, !.sent = hs[h].sent]]
          /\ mq' = waiters[h]
          /\ waiters' = [waiters EXCEPT ![h] = <<>>]
          /\ wire' = Exchange(h, "edr", r, 0, NoReq, 0)
          /\ UNCHANGED <<edrPromiseCache, calls, inbound>>

----------------------------------------------------------------------------
(* requestFederatedData *)

FreshHandshake == CHOOSE h \in HsIds : hs[h].pc = "unused" /\ \A g \in 1..(h - 1) : hs[g].pc # "unused"

\* A call enters: on a cache miss it starts negotiateAndGetEdr (which sends the
\* catalog request) and stores its promise; then it awaits the cached promise.
\* What the caller does with its own state in this step is the caller's part.
StartCall(c) ==
  /\ mq = <<>>
  /\ calls[c].pc \in Finished
  /\ IF IsCacheMiss(edrPromiseCache)
     THEN /\ \E h \in HsIds : hs[h].pc = "unused"
          /\ hs' = [hs EXCEPT ![FreshHandshake] = [Unused EXCEPT !.pc = "catalog", !.sent = <<"catalog">>]]
          /\ edrPromiseCache' = FreshHandshake
          /\ wire' = Exchange(FreshHandshake, "none", NoResp, 0, CatalogReq, 0)
     ELSE UNCHANGED <<hs, edrPromiseCache, wire>>
  /\ calls' = [calls EXCEPT ![c] = [Idle EXCEPT !.pc = "await", !.h = edrPromiseCache']]
  /\ IF hs'[edrPromiseCache'].pc \in Settled
     THEN mq' = <<c>> /\ UNCHANGED waiters
     ELSE /\ waiters' = [waiters EXCEPT ![edrPromiseCache'] = Append(@, c)]
          /\ UNCHANGED mq

\* const edr = await edrPromiseCache[ASSET_ID] resumes: with the channel, and the
\* data-plane request is sent; or with the handshake's error, and the call fails.
ResumeCall ==
  /\ mq # <<>>
  /\ LET c == Head(mq) IN
       calls' = [calls EXCEPT ![c] =
                   IF hs[calls[c].h].pc = "resolved"
                   THEN [@ EXCEPT !.pc = "fetch", !.edr = hs[calls[c].h].edr]
                   ELSE [@ EXCEPT !.pc = "failed", !.err = "handshake"]]
  /\ mq' = Tail(mq)
  /\ UNCHANGED <<edrPromiseCache, hs, waiters, wire, inbound>>

\* the data plane answers (status 0: the fetch itself fails; json: whether the body
\* of a success response parses, for return await result.json())
DataPlaneResponse(c, status, json) ==
  /\ mq = <<>>
  /\ calls[c].pc = "fetch"
  /\ IF status = 0
     THEN /\ calls' = [calls EXCEPT ![c] = [@ EXCEPT !.pc = "failed", !.err = "fetch"]]
          /\ UNCHANGED edrPromiseCache
     ELSE IF IsOk(status)
     THEN /\ calls' = [calls EXCEPT ![c] =
                         IF json THEN [@ EXCEPT !.pc = "returned", !.status = status]
                         ELSE [@ EXCEPT !.pc = "failed", !.err = "body", !.status = status]]
          /\ UNCHANGED edrPromiseCache
     ELSE /\ calls' = [calls EXCEPT ![c] = [@ EXCEPT !.pc = AfterHttpError(status), !.err = "http", !.status = status]]
          /\ edrPromiseCache' = IF IsAuthRejection(status) THEN NoEntry ELSE edrPromiseCache
  /\ UNCHANGED <<hs, waiters, mq, wire, inbound>>

----------------------------------------------------------------------------
\* The calls in C go on, and the handshakes with them, the control plane answering
\* with the catalogs, acknowledgement ids, states and channels given.
Progress(C, catalogs, ackIds, states, channels) ==
  \/ ResumeCall
  \/ \E c \in C, status \in HttpStatuses \cup {0}, json \in BOOLEAN : DataPlaneResponse(c, status, json)
  \/ \E h \in HsIds, r \in {Throw} \cup {CatalogResp(c) : c \in catalogs} : CatalogResponse(h, r)
  \/ \E h \in HsIds, r \in {Throw} \cup {AckResp(id) : id \in ackIds} : NegotiationResponse(h, r)
  \/ \E h \in HsIds, r \in {Throw} \cup {StatusResp(s, a) : s \in states, a \in AgreementIds} : PollResponse(h, r)
  \/ \E h \in HsIds, r \in {Throw} \cup {AckResp(id) : id \in ackIds} : TransferResponse(h, r)
  \/ \E h \in HsIds, r \in {Throw} \cup {EdrResp(ch) : ch \in channels} : EdrResponse(h, r)

\* The steps of the client when requestFederatedData is called through the slots in C
\* by callers the model leaves out.
Step(C) ==
  \/ \E c \in C : StartCall(c) /\ UNCHANGED inbound
  \/ Progress(C, Catalogs, AckIds, PollStates, Channels)

Next == Step(CallIds)

\* Up to NumCalls overlapping calls.
Spec == Init /\ [][Next]_vars

\* One caller at a time: the handshakes run one after the other.
NextSequential == Step({1})

SpecHandshake == Init /\ [][NextSequential]_vars

\* The request handshake h has in flight is answered, by a response or by a failure
\* of the fetch, or the delay of its polling loop ends.
HandshakeStep(h) ==
  \/ \E r \in {Throw} \cup {CatalogResp(c) : c \in Catalogs} : CatalogResponse(h, r)
  \/ \E r \in {Throw} \cup {AckResp(id) : id \in AckIds} : NegotiationResponse(h, r)
  \/ \E r \in {Throw} \cup {StatusResp(s, a) : s \in PollStates, a \in AgreementIds} : PollResponse(h, r)
  \/ \E r \in {Throw} \cup {AckResp(id) : id \in AckIds} : TransferResponse(h, r)
  \/ \E r \in {Throw} \cup {EdrResp(ch) : ch \in Channels} : EdrResponse(h, r)

\* Every fetch and every delay of a handshake returns, and the continuations queued
\* as microtasks run.
NetworkReturns ==
  /\ \A h \in HsIds : WF_vars(HandshakeStep(h))
  /\ WF_vars(ResumeCall)

\* One caller at a time, on a network that always answers.
SpecHandshakeFair == Init /\ [][NextSequential]_vars /\ NetworkReturns

----------------------------------------------------------------------------
(* The router: pure parts *)

\* id: node.sourceId * 1000000 + c.id
MergedId(sourceId, localId) == sourceId * NAMESPACE_MULTIPLIER + localId

\* `[${node.sourceName}] ${name}`
Prefixed(node, name) == <<"[", node.sourceName, "] ">> \o name

\* c => ({...c, id: ..., name: ...})
Namespaced(node, c) ==
  [c EXCEPT !.id = MergedId(node.sourceId, c.id), !.name = Prefixed(node, c.name)]

\* remoteCohorts.map(...)
MapNamespaced(node, remoteCohorts) ==
  [j \in 1..Len(remoteCohorts) |-> Namespaced(node, remoteCohorts[j])]

\* Mutant: the failure of a node discards what the nodes before it gave.
AfterNode_FailureDiscards(federatedCohorts, ok, node, remoteCohorts) ==
  IF ok THEN federatedCohorts \o MapNamespaced(node, remoteCohorts) ELSE <<>>

\* One turn of the loop over the nodes: the try block concatenates the namespaced
\* records, the catch block only logs.
AfterNode(federatedCohorts, ok, node, remoteCohorts) ==
  IF ok THEN federatedCohorts \o MapNamespaced(node, remoteCohorts) ELSE federatedCohorts

\* Mutant: the remote records are put first.
Combined_RemoteFirst(localCohorts, federatedCohorts) == federatedCohorts \o localCohorts

\* [...localCohorts, ...federatedCohorts]
Combined(localCohorts, federatedCohorts) == localCohorts \o federatedCohorts

\* Mutant: only the ids below the multiplier are left to the local WebAPI.
IsLocalId_BelowMultiplier(id) == id < NAMESPACE_MULTIPLIER

\* if (id < 1000000000)
IsLocalId(id) == id < LocalIdLimit

\* Mutant: the quotient is rounded to the nearest integer (Math.round).
DecodeSourceId_Rounds(id) == (id + NAMESPACE_MULTIPLIER \div 2) \div NAMESPACE_MULTIPLIER

\* Math.floor(id / 1000000), for the ids parseInt gives on digits (no sign)
DecodeSourceId(id) == id \div NAMESPACE_MULTIPLIER

\* id % 1000000
DecodeOriginalId(id) == id % NAMESPACE_MULTIPLIER

\* FEDERATED_NODES.find(n => n.sourceId === sourceId): a sequence holding the first
\* match, empty when there is none
RECURSIVE FindNode(_, _)
FindNode(nodes, sourceId) ==
  IF nodes = <<>> THEN <<>>
  ELSE IF nodes[1].sourceId = sourceId THEN <<nodes[1]>>
  ELSE FindNode(Tail(nodes), sourceId)

\* The decisions of the single-record handler on an id, up to its first await.
Classify(id) ==
  IF IsLocalId(id)
  THEN [kind |-> "local", sourceId |-> 0, originalId |-> 0, node |-> <<>>]
  ELSE LET sourceId == DecodeSourceId(id)
           originalId == DecodeOriginalId(id)
           node == FindNode(FEDERATED_NODES, sourceId)
       IN [kind |-> IF node = <<>> THEN "notFound" ELSE "remote",
           sourceId |-> sourceId, originalId |-> originalId, node |-> node]

\* `/cohortdefinition/${originalId}`
CohortPath(originalId) == <<"/cohortdefinition/", originalId>>

\* remoteDef.id = id; remoteDef.name = `[${node.sourceName}] ${remoteDef.name}`
Rewritten(remoteDef, id, node) == [remoteDef EXCEPT !.id = id, !.name = Prefixed(node, @)]

\* urlPath.includes(sub)
Includes(urlPath, sub) ==
  \E i \in 0..(Len(urlPath) - Len(sub)) : SubSeq(urlPath, i + 1, i + Len(sub)) = sub

\* urlPath.includes(`/${node.sourceKey}`) || urlPath.includes(`${node.sourceKey}/`)
HasSourceKey(urlPath, node) ==
  Includes(urlPath, <<"/", node.sourceKey>>) \/ Includes(urlPath, <<node.sourceKey, "/">>)

\* FEDERATED_NODES.find(node => ...): a sequence holding the first match, or empty
RECURSIVE FindTarget(_, _)
FindTarget(nodes, urlPath) ==
  IF nodes = <<>> THEN <<>>
  ELSE IF HasSourceKey(urlPath, nodes[1]) THEN <<nodes[1]>>
  ELSE FindTarget(Tail(nodes), urlPath)

\* Mutant: no path is taken for a cohort generation.
IsGenerate_Never(urlPath) == FALSE

\* urlPath.includes("/generate/")
IsGenerate(urlPath) == Includes(urlPath, <<"/", "generate", "/">>)

\* urlPath.replace(targetFedNode.sourceKey, "EUNOMIA"): the first occurrence
RECURSIVE ReplaceFirst(_, _)
ReplaceFirst(urlPath, key) ==
  IF urlPath = <<>> THEN <<>>
  ELSE IF urlPath[1] = key THEN <<"EUNOMIA">> \o Tail(urlPath)
  ELSE <<urlPath[1]>> \o ReplaceFirst(Tail(urlPath), key)

\* the simulated JobStatus of a cohort generation
JobStatus(node, jobId) ==
  [id |-> jobId, status |-> "STARTING", progress |-> 0,
   name |-> <<"EDC Federation Job on ", node.sourceName>>]

----------------------------------------------------------------------------
(* The router: handlers, one inbound request at a time *)

ClientUnchanged == UNCHANGED <<edrPromiseCache, hs, calls, waiters, mq, wire>>

\* No inbound request is being served.
Arrives == mq = <<>> /\ inbound.pc \in {"idle", "done", "proxied"}

\* The request that arrives for the handler of route.
Fresh(route) ==
  [NoRequest EXCEPT !.route = route,
                    !.base = Cardinality({h \in HsIds : hs[h].pc # "unused"})]

\* The handler calls requestFederatedData(pathSuffix, "GET") and suspends on it.
CallFederated(state, pathSuffix) ==
  /\ StartCall(1)
  /\ inbound' = [state EXCEPT !.path = pathSuffix, !.requests = @ + 1]

\* GET /WebAPI/source/sources arrives: the local sources are fetched
GetSources ==
  /\ Arrives
  /\ inbound' = [Fresh("sources") EXCEPT !.pc = "local"]
  /\ ClientUnchanged

\* the local WebAPI answers (or the fetch throws): the combined sources, or 500
SourcesLocalResponse(res) ==
  /\ mq = <<>>
  /\ inbound.route = "sources" /\ inbound.pc = "local"
  /\ inbound' =
       IF res.kind = "throw"
       THEN [inbound EXCEPT !.pc = "done", !.status = 500, !.localRes = res]
       ELSE LET localSources == IF res.kind = "ok" THEN res.items ELSE <<>> IN
            [inbound EXCEPT !.pc = "done", !.status = 200, !.localRes = res,
                            !.body = localSources \o FEDERATED_NODES]
  /\ ClientUnchanged

\* GET /WebAPI/cohortdefinition arrives: the local cohorts are fetched
GetCohorts ==
  /\ Arrives
  /\ inbound' = [Fresh("cohorts") EXCEPT !.pc = "local", !.urlPath = ListingPath]
  /\ ClientUnchanged

\* the local WebAPI answers: the loop over the nodes starts with the first node; or
\* the fetch throws: next()
CohortsLocalResponse(res) ==
  /\ mq = <<>>
  /\ inbound.route = "cohorts" /\ inbound.pc = "local"
  /\ IF res.kind = "throw"
     THEN /\ inbound' = [inbound EXCEPT !.pc = "next", !.localRes = res]
          /\ ClientUnchanged
     ELSE CallFederated([inbound EXCEPT !.pc = "node", !.k = 1, !.localRes = res,
                                        !.localCohorts = IF res.kind = "ok" THEN res.items ELSE <<>>],
                        <<"/cohortdefinition">>)

\* requestFederatedData settles for the node of the loop: its records are added, or
\* its failure is logged; then the next node is asked, or the merged list is sent
CohortsNodeSettled(remoteCohorts) ==
  /\ mq = <<>>
  /\ inbound.route = "cohorts" /\ inbound.pc = "node"
  /\ calls[1].pc \in {"returned", "failed"}
  /\ LET ok == calls[1].pc = "returned"
         node == FEDERATED_NODES[inbound.k]
         after == [inbound EXCEPT
                     !.federatedCohorts = AfterNode(@, ok, node, remoteCohorts),
                     !.fetched = Append(@, [ok |-> ok, items |-> IF ok THEN remoteCohorts ELSE <<>>])]
     IN IF inbound.k < Len(FEDERATED_NODES)
        THEN CallFederated([after EXCEPT !.k = @ + 1], <<"/cohortdefinition">>)
        ELSE /\ inbound' = [after EXCEPT !.pc = "done", !.status = 200,
                                         !.body = Combined(after.localCohorts, after.federatedCohorts)]
             /\ ClientUnchanged

\* GET /WebAPI/cohortdefinition/:id arrives: next() for what is not a number and
\* for a local id, 404 for an unknown node, else the definition is requested
GetCohort(idStr) ==
  /\ Arrives
  /\ LET id == idStr.n
         fresh == [Fresh("cohort") EXCEPT !.idStr = idStr, !.urlPath = DefinitionPath]
         to == Classify(id)
     IN IF ~idStr.digits \/ to.kind = "local"
        THEN /\ inbound' = [fresh EXCEPT !.pc = "next"]
             /\ ClientUnchanged
        ELSE IF to.kind = "notFound"
        THEN /\ inbound' = [fresh EXCEPT !.pc = "done", !.status = 404]
             /\ ClientUnchanged
        ELSE CallFederated([fresh EXCEPT !.pc = "remote", !.node = to.node],
                           CohortPath(to.originalId))

\* requestFederatedData settles for the definition: it is rewritten and sent, or 500
CohortRemoteSettled(remoteDef) ==
  /\ mq = <<>>
  /\ inbound.route = "cohort" /\ inbound.pc = "remote"
  /\ calls[1].pc \in {"returned", "failed"}
  /\ inbound' =
       IF calls[1].pc = "returned"
       THEN [inbound EXCEPT !.pc = "done", !.status = 200,
                            !.fetched = <<[ok |-> TRUE, items |-> <<remoteDef>>]>>,
                            !.body = <<Rewritten(remoteDef, inbound.idStr.n, inbound.node[1])>>]
       ELSE [inbound EXCEPT !.pc = "done", !.status = 500,
                            !.fetched = <<[ok |-> FALSE, items |-> <<>>]>>]
  /\ ClientUnchanged

\* app.use("/WebAPI", ...) on a request: a path with the sourceKey of a node is
\* answered with a simulated JobStatus when it is a cohort generation, and else
\* requested through requestFederatedData with the sourceKey replaced; a path with
\* no sourceKey goes with next() to the proxy.
Middleware(state, jobId) ==
  LET targetFedNode == FindTarget(FEDERATED_NODES, state.urlPath) IN
  IF targetFedNode = <<>>
  THEN /\ inbound' = [state EXCEPT !.route = "use", !.pc = "proxied"]
       /\ ClientUnchanged
  ELSE IF IsGenerate(state.urlPath)
  THEN /\ inbound' = [state EXCEPT !.route = "use", !.pc = "done", !.status = 200,
                                   !.node = targetFedNode,
                                   !.body = <<JobStatus(targetFedNode[1], jobId)>>]
       /\ ClientUnchanged
  ELSE CallFederated([state EXCEPT !.route = "use", !.pc = "remote", !.node = targetFedNode],
                     ReplaceFirst(state.urlPath, targetFedNode[1].sourceKey))

\* a request for a path no handler takes arrives at the middleware
Use(urlPath, jobId) ==
  /\ Arrives
  /\ Middleware([Fresh("use") EXCEPT !.urlPath = urlPath], jobId)

\* a request a handler passed on with next() reaches the middleware
UseAfterNext(jobId) ==
  /\ mq = <<>>
  /\ inbound.pc = "next"
  /\ Middleware(inbound, jobId)

\* requestFederatedData settles for the path: what it returned is sent, or 502
UseRemoteSettled(remoteData) ==
  /\ mq = <<>>
  /\ inbound.route = "use" /\ inbound.pc = "remote"
  /\ calls[1].pc \in {"returned", "failed"}
  /\ inbound' =
       IF calls[1].pc = "returned"
       THEN [inbound EXCEPT !.pc = "done", !.status = 200, !.body = remoteData]
       ELSE [inbound EXCEPT !.pc = "done", !.status = 502]
  /\ ClientUnchanged

\* What the control plane answers while the router is exercised.
RouterCatalogs == { Absent, Single(Dataset(ASSET_ID, UsagePolicy)) }
RouterAckIds == { Id("id-1") }
RouterPollStates == { "FINALIZED", "REQUESTED" }
RouterChannels == { [endpoint |-> "https://dataplane/public", authorization |-> "token-1"] }

NextRouter ==
  \/ GetSources
  \/ \E res \in LocalResponses(LocalSourceLists) : SourcesLocalResponse(res)
  \/ GetCohorts
  \/ \E res \in LocalResponses(LocalCohortLists) : CohortsLocalResponse(res)
  \/ \E remoteCohorts \in RemoteCohortLists : CohortsNodeSettled(remoteCohorts)
  \/ \E idStr \in IdStrs : GetCohort(idStr)
  \/ \E remoteDef \in RemoteDefs : CohortRemoteSettled(remoteDef)
  \/ \E urlPath \in UrlPaths, jobId \in JobIds : Use(urlPath, jobId)
  \/ \E jobId \in JobIds : UseAfterNext(jobId)
  \/ \E remoteData \in RemoteData : UseRemoteSettled(remoteData)
  \/ Progress({1}, RouterCatalogs, RouterAckIds, RouterPollStates, RouterChannels)

\* The handlers and the middleware over the client, one inbound request after the other.
SpecRouter == Init /\ [][NextRouter]_vars

----------------------------------------------------------------------------
(* The namespacing of identifiers on its own: the listing's transform applied to a
   record, and the single-record handler's decisions applied to the id. *)

\* The ids of the records tried: the least, the greatest below the multiplier, and
\* the first from the multiplier on.
LocalIdSamples ==
  (0..MaxSample) \cup {NAMESPACE_MULTIPLIER - 1 - j : j \in 0..MaxSample}
                 \cup {NAMESPACE_MULTIPLIER + j : j \in 0..MaxSample}

\* A record c of node FEDERATED_NODES[k], or of the local WebAPI when k = 0; id is
\* the id under which the gateway lists it, and to is where a request for that id goes.
IdCase(k, c) ==
  [route |-> "ids", pc |-> IF k = 0 THEN "listed" ELSE "record", k |-> k, c |-> c, id |-> c.id,
   to |-> [kind |-> "none", sourceId |-> 0, originalId |-> 0, node |-> <<>>]]

InitIds ==
  /\ ClientInit
  /\ inbound \in {IdCase(k, Cohort(localId, "Diabetes")) :
                    k \in 0..Len(FEDERATED_NODES), localId \in LocalIdSamples}

\* the listing namespaces the record of a node
MintId ==
  /\ inbound.route = "ids" /\ inbound.pc = "record"
  /\ inbound' = [inbound EXCEPT !.pc = "listed",
                                 !.id = Namespaced(FEDERATED_NODES[inbound.k], inbound.c).id]
  /\ ClientUnchanged

\* the listed id is requested on the single-record endpoint
RouteId ==
  /\ inbound.route = "ids" /\ inbound.pc = "listed"
  /\ inbound' = [inbound EXCEPT !.pc = "routed", !.to = Classify(inbound.id)]
  /\ ClientUnchanged

NextIds == MintId \/ RouteId

SpecIds == InitIds /\ [][NextIds]_vars

----------------------------------------------------------------------------
(* Properties *)

Range(q) == {q[k] : k \in 1..Len(q)}
InProgress == {h \in HsIds : hs[h].pc \in Pending}
PhaseOrder == <<"catalog", "negotiate", "pollNeg", "transfer", "pollTrans", "edr">>
IsPrefix(p, q) == Len(p) <= Len(q) /\ \A k \in 1..Len(p) : p[k] = q[k]

\* C1: in every reachable state at most one handshake (run of negotiateAndGetEdr)
\* is in progress for the asset.
C1_AtMostOneHandshake == Cardinality(InProgress) <= 1

\* C2: calls that overlap while waiting for a channel all wait on one and the same
\* handshake (exactly one executes for them), and calls served by the same
\* handshake hold the same Channel.
C2_OneHandshakeSameChannel ==
  \A c, d \in CallIds :
    /\ (calls[c].pc = "await" /\ calls[d].pc = "await"
          /\ calls[c].h \in InProgress /\ calls[d].h \in InProgress)
        => calls[c].h = calls[d].h
    /\ (calls[c].pc = "fetch" /\ calls[d].pc = "fetch" /\ calls[c].h = calls[d].h)
        => calls[c].edr = calls[d].edr

\* C3: a failed handshake's entry is out of the cache before any waiter receives the
\* failure: the cache never holds a failed handshake, a call whose await is
\* about to throw the failure (or has just thrown it) sees no entry, and a call that
\* is suspended on the cached promise is suspended on a handshake still in progress.
C3_FailureClearsCache ==
  /\ \A h \in HsIds : hs[h].pc = "rejected" => edrPromiseCache # h
  /\ \A c \in CallIds :
       (calls[c].pc = "await" /\ hs[calls[c].h].pc = "rejected")
         => (c \in Range(mq) /\ edrPromiseCache = NoEntry)
  /\ \A c \in CallIds :
       (calls[c].pc = "await" /\ c \notin Range(mq)) => calls[c].h \in InProgress

\* C3 witness: a call has received a handshake's failure, and a later call has started
\* a fresh handshake, now in progress in the cache.
C3_Witness ==
  \E c \in CallIds :
    /\ calls[c].pc = "failed" /\ calls[c].err = "handshake"
    /\ hs[calls[c].h].pc = "rejected"
    /\ edrPromiseCache # NoEntry /\ edrPromiseCache # calls[c].h
    /\ edrPromiseCache \in InProgress

\* C4: the step in which a call handles a 401 or 403 from the data plane leaves the
\* cache without an entry, and a call that enters with no entry starts a new handshake.
C4_RejectionEvicts ==
  [][\A c \in CallIds :
       /\ (calls[c].pc = "fetch" /\ calls'[c].pc = "failed" /\ calls'[c].status \in {401, 403})
            => edrPromiseCache' = NoEntry
       /\ (calls[c].pc \in Finished /\ calls'[c].pc = "await" /\ edrPromiseCache = NoEntry)
            => (hs[calls'[c].h].pc = "unused" /\ hs'[calls'[c].h].pc = "catalog")]_vars

\* C4 witness: a call was rejected with 403 on a channel of a resolved handshake, the
\* cache is empty, and the next call is negotiating again.
C4_Witness ==
  \E c, d \in CallIds :
    /\ calls[c].pc = "failed" /\ calls[c].status = 403
    /\ hs[calls[c].h].pc = "resolved"
    /\ calls[d].pc = "await" /\ calls[d].h # calls[c].h /\ calls[d].h \in InProgress

\* C5: a status response reporting TERMINATED ends the handshake at once: no further
\* request is sent on it and the handshake has failed.
C5_TerminatedStopsPolling ==
  (wire.resp.kind = "status" /\ wire.resp.state = "TERMINATED")
    => (wire.req.kind = "none" /\ hs[wire.h].pc = "rejected")

\* A state fetchWithRetry returns on.
Accepted(state) == state \in {"FINALIZED", "STARTED"}

\* C6: a polling phase issues at most MaxRetries status requests; when the last of
\* them reports no success the handshake fails with the timeout error and sends
\* nothing more; the transfer request and the credential request are sent only on a
\* status that reports success, so a handshake that timed out never sent the request
\* of the next phase.
C6_PollBudget ==
  /\ wire.polls <= MaxRetries
  /\ \A h \in HsIds : hs[h].i < MaxRetries
  /\ wire.req.kind = "transfer"
       => (wire.phase = "pollNeg" /\ wire.resp.kind = "status" /\ Accepted(wire.resp.state))
  /\ wire.req.kind = "edr"
       => (wire.phase = "pollTrans" /\ wire.resp.kind = "status" /\ Accepted(wire.resp.state))
  /\ (wire.resp.kind = "status" /\ ~Accepted(wire.resp.state))
       => /\ wire.req.kind \in {"none", wire.phase}
          /\ wire.n = MaxRetries
               => (wire.req.kind = "none" /\ hs[wire.h].pc = "rejected" /\ hs[wire.h].err = "Timeout")
  /\ \A h \in HsIds :
       (hs[h].pc = "rejected" /\ hs[h].err = "Timeout")
         => hs[h].sent \in { <<"catalog", "negotiate", "pollNeg">>,
                             <<"catalog", "negotiate", "pollNeg", "transfer", "pollTrans">> }

\* C6 witness: the 30th status of the negotiation polling reported no success and the
\* handshake timed out before any transfer request.
C6_Witness ==
  /\ wire.phase = "pollNeg" /\ wire.n = MaxRetries /\ wire.polls = MaxRetries
  /\ wire.resp.kind = "status" /\ wire.req.kind = "none"
  /\ hs[wire.h].pc = "rejected" /\ hs[wire.h].err = "Timeout"
  /\ hs[wire.h].sent = <<"catalog", "negotiate", "pollNeg">>

\* The catalog's dataset collection holds a dataset whose @id is the asset id.
CatalogHasAsset(ds) == \E k \in 1..Len(ds.items) : ds.items[k].id = ASSET_ID

\* C7: a catalog with no dataset whose @id is the asset id (as a list or as a single
\* object) fails the handshake, which has sent the catalog request and nothing else;
\* a contract request is sent only on a catalog that holds the asset.
C7_CatalogMissStops ==
  /\ wire.req.kind = "negotiate"
       => (wire.phase = "catalog" /\ wire.resp.kind = "catalog" /\ CatalogHasAsset(wire.resp.dataset))
  /\ (wire.resp.kind = "catalog" /\ ~CatalogHasAsset(wire.resp.dataset))
       => (wire.req.kind = "none" /\ hs[wire.h].pc = "rejected" /\ hs[wire.h].sent = <<"catalog">>)
  /\ \A h \in HsIds : (hs[h].pc = "rejected" /\ hs[h].err = "NotFound") => hs[h].sent = <<"catalog">>

\* C7 witness: a catalog whose only dataset is another asset has failed the handshake.
C7_Witness ==
  /\ wire.resp.kind = "catalog"
  /\ Len(wire.resp.dataset.items) = 1 /\ ~CatalogHasAsset(wire.resp.dataset)
  /\ hs[wire.h].pc = "rejected"

\* C8: the kinds of request a handshake has sent are a prefix of catalog, negotiate,
\* negotiation polls, transfer, transfer polls, credential; the request in flight is
\* the last of them; and a handshake that produced a Channel has sent all six.
C8_PhaseOrder ==
  \A h \in HsIds :
    /\ IsPrefix(hs[h].sent, PhaseOrder)
    /\ hs[h].pc \in Pending => (hs[h].sent # <<>> /\ hs[h].sent[Len(hs[h].sent)] = hs[h].pc)
    /\ hs[h].pc = "resolved" => hs[h].sent = PhaseOrder
    /\ hs[h].pc = "unused" => hs[h].sent = <<>>

\* C8 witness: a handshake has produced a Channel that a call is using.
C8_Witness ==
  \E c \in CallIds :
    /\ calls[c].pc = "fetch" /\ calls[c].edr \in Channels
    /\ hs[calls[c].h].pc = "resolved" /\ hs[calls[c].h].sent = PhaseOrder

\* C9: an acknowledgement of the contract request that carries no @id fails the
\* handshake, and no negotiation status request is sent.
C9_MissingNegotiationIdFails ==
  (wire.phase = "negotiate" /\ wire.resp.kind = "ack" /\ ~wire.resp.id.defined)
    => (wire.req.kind = "none" /\ hs[wire.h].pc = "rejected")

\* C10: the policy of the contract request carries the offer id and exactly the
\* permission, prohibition and obligation clauses of the policy of the catalog's
\* dataset for the asset.
C10_PolicyEchoed ==
  wire.req.kind = "negotiate" =>
    LET items == wire.resp.dataset.items
        k == CHOOSE j \in 1..Len(items) :
               items[j].id = ASSET_ID /\ \A m \in 1..(j - 1) : items[m].id # ASSET_ID
        offered == items[k].policy
    IN /\ wire.req.policy.id = offered.id
       /\ wire.req.policy.permission = offered.permission
       /\ wire.req.policy.prohibition = offered.prohibition
       /\ wire.req.policy.obligation = offered.obligation

\* C11: for every configured node and every record id of that node from 0 up to,
\* but not including, the multiplier, the quotient and the remainder of the merged
\* id by the multiplier are the node's id and the record's id.
C11_RoundTrip ==
  (inbound.route = "ids" /\ inbound.pc = "routed" /\ inbound.k > 0
     /\ inbound.c.id < NAMESPACE_MULTIPLIER)
    => /\ inbound.id = FEDERATED_NODES[inbound.k].sourceId * NAMESPACE_MULTIPLIER + inbound.c.id
       /\ inbound.to.sourceId = FEDERATED_NODES[inbound.k].sourceId
       /\ inbound.to.originalId = inbound.c.id

\* C11 witness: the greatest record id below the multiplier, of the second node, has
\* been merged and decoded.
C11_Witness ==
  /\ inbound.route = "ids" /\ inbound.pc = "routed"
  /\ inbound.k = 2 /\ inbound.c.id = NAMESPACE_MULTIPLIER - 1
  /\ inbound.id = 1002999999
  /\ inbound.to.sourceId = 1002 /\ inbound.to.originalId = 999999

\* The cohort listing has been answered.
ListingDone == inbound.route = "cohorts" /\ inbound.pc = "done"

\* The nodes of the listing whose fetch returned, and those whose fetch failed.
NodesOk == {j \in 1..Len(inbound.fetched) : inbound.fetched[j].ok}
NodesFailed == {j \in 1..Len(inbound.fetched) : ~inbound.fetched[j].ok}

\* The number of records the fetches of the nodes up to j returned.
RECURSIVE CountUpTo(_)
CountUpTo(j) == IF j = 0 THEN 0 ELSE CountUpTo(j - 1) + Len(inbound.fetched[j].items)

\* C12: when the fetch of one node fails and the fetch of another returns, the cohort
\* listing is answered with a success whose body is the local records followed by as
\* many records as the nodes that returned gave, each with the id of a node that
\* returned; a node that failed has no record in it.
C12_PartialFailureTolerated ==
  (ListingDone /\ NodesOk # {} /\ NodesFailed # {})
    => /\ inbound.status = 200
       /\ Len(inbound.body) = Len(inbound.localRes.items) + CountUpTo(Len(inbound.fetched))
       /\ \A i \in 1..Len(inbound.localRes.items) : inbound.body[i] = inbound.localRes.items[i]
       /\ \A j \in NodesOk : \A i \in 1..Len(inbound.fetched[j].items) :
            inbound.body[Len(inbound.localRes.items) + CountUpTo(j - 1) + i].id =
              FEDERATED_NODES[j].sourceId * NAMESPACE_MULTIPLIER + inbound.fetched[j].items[i].id
       /\ \A j \in NodesFailed : inbound.fetched[j].items = <<>>

\* C12 witness: the fetch of the first node returned a record, the fetch of the second
\* failed, and the listing holds the local record and the first node's record.
C12_Witness ==
  /\ ListingDone /\ inbound.status = 200
  /\ NodesOk = {1} /\ NodesFailed = {2}
  /\ Len(inbound.localRes.items) = 1 /\ Len(inbound.fetched[1].items) = 1
  /\ Len(inbound.body) = 2 /\ inbound.body[2].id = 1001000007

\* C13: when the local WebAPI answers a listing's fetch with a response that is not
\* a success, or the fetch fails, the listing of the sources and the listing of the
\* cohorts are answered by the gateway with a success.
C13_ListingsSurviveLocalOutage ==
  (inbound.route \in {"sources", "cohorts"} /\ inbound.pc \in {"done", "next"}
     /\ inbound.localRes.kind \in {"notOk", "throw"})
    => (inbound.pc = "done" /\ inbound.status = 200)

\* C14: a request for one definition with a numeric id.  Below LocalIdLimit the
\* handler calls next() and has called requestFederatedData not once.  From
\* LocalIdLimit on: when the quotient of the id by the multiplier is the id of a
\* configured node, requestFederatedData is called once, with the path of the
\* remainder, and what it returns is sent with the requested id and the prefixed
\* name; when it is not, the answer is 404 and requestFederatedData is not called.
\* No call is in flight when the handler has not called requestFederatedData.
C14_SingleRecordRouting ==
  (inbound.route = "cohort" /\ inbound.idStr.digits) =>
    LET id == inbound.idStr.n
        configured == {j \in 1..Len(FEDERATED_NODES) :
                         FEDERATED_NODES[j].sourceId = id \div NAMESPACE_MULTIPLIER}
    IN /\ id < 1000000000
            => (inbound.pc = "next" /\ inbound.status = 0 /\ inbound.requests = 0)
       /\ (id >= 1000000000 /\ configured = {})
            => (inbound.pc = "done" /\ inbound.status = 404 /\ inbound.requests = 0)
       /\ inbound.requests = 0 => calls[1].pc \in Finished
       /\ (id >= 1000000000 /\ configured # {})
            => /\ inbound.pc \in {"remote", "done"}
               /\ inbound.requests = 1
               /\ inbound.path = <<"/cohortdefinition/", id % NAMESPACE_MULTIPLIER>>
               /\ inbound.pc = "remote" => calls[1].pc \notin {"idle"}
               /\ inbound.pc = "done" =>
                    /\ calls[1].pc \in {"returned", "failed"}
                    /\ calls[1].pc = "failed" => inbound.status = 500
                    /\ calls[1].pc = "returned" =>
                         /\ inbound.status = 200
                         /\ inbound.body[1].id = id
                         /\ \E j \in configured :
                              inbound.body[1] =
                                [inbound.fetched[1].items[1] EXCEPT
                                   !.id = id,
                                   !.name = <<"[", FEDERATED_NODES[j].sourceName, "] ">> \o @]

\* C14 witness: the definition 1001000007 was fetched with the path of 7 on a channel
\* and sent with the requested id.
C14_Witness ==
  /\ inbound.route = "cohort" /\ inbound.pc = "done" /\ inbound.status = 200
  /\ inbound.idStr = IdStr(1001000007)
  /\ inbound.path = <<"/cohortdefinition/", 7>>
  /\ calls[1].pc = "returned" /\ calls[1].edr \in Channels
  /\ inbound.body[1].id = 1001000007

\* C17: the body of the cohort listing is the records the local WebAPI returned, as
\* they are, followed node after node, in the order of the nodes, by the records the
\* node's fetch returned, each with the id sourceId * 1000000 + its own id, with the
\* name "[" sourceName "] " name, and its other fields as they are.
C17_MergedListing ==
  ListingDone =>
    LET local == inbound.localRes.items IN
    /\ Len(inbound.fetched) = Len(FEDERATED_NODES)
    /\ Len(inbound.body) = Len(local) + CountUpTo(Len(FEDERATED_NODES))
    /\ \A i \in 1..Len(local) : inbound.body[i] = local[i]
    /\ \A j \in 1..Len(FEDERATED_NODES) : \A i \in 1..Len(inbound.fetched[j].items) :
         LET c == inbound.fetched[j].items[i]
             merged == inbound.body[Len(local) + CountUpTo(j - 1) + i]
         IN /\ merged.id = FEDERATED_NODES[j].sourceId * 1000000 + c.id
            /\ merged.name = <<"[", FEDERATED_NODES[j].sourceName, "] ">> \o c.name
            /\ merged.createdBy = c.createdBy

\* C17 witness: one local record with id 5, and one record with id 7 from each node.
C17_Witness ==
  /\ ListingDone
  /\ Len(inbound.body) = 3
  /\ inbound.body[1] = Cohort(5, "Asthma")
  /\ inbound.body[2].id = 1001000007
  /\ inbound.body[2].name = <<"[", "Hospital La Paz (Federated)", "] ", "Diabetes">>
  /\ inbound.body[3].id = 1002000007

\* C20: the id the listing gives to any record of a configured node is, on the
\* single-record endpoint, routed to that node with the record's own id; and the id
\* of a local record below the multiplier is left to the local WebAPI.
C20_ListedIdsRouteBack ==
  (inbound.route = "ids" /\ inbound.pc = "routed") =>
    /\ inbound.k > 0
         => /\ inbound.to.kind = "remote"
            /\ inbound.to.node = <<FEDERATED_NODES[inbound.k]>>
            /\ inbound.to.originalId = inbound.c.id
    /\ (inbound.k = 0 /\ inbound.c.id < NAMESPACE_MULTIPLIER) => inbound.to.kind = "local"

\* C15: on a network that always answers, every handshake in progress ends, with a
\* Channel or with a failure.
C15_HandshakeEnds ==
  \A h \in HsIds : (hs[h].pc \in Pending) ~> (hs[h].pc \in Settled)

\* C15 witness: a handshake ended by the timeout of its transfer polling, after the
\* thirtieth status of that phase reported no success.
C15_Witness ==
  \E h \in HsIds :
    /\ hs[h].pc = "rejected" /\ hs[h].err = "Timeout"
    /\ hs[h].sent = <<"catalog", "negotiate", "pollNeg", "transfer", "pollTrans">>
    /\ wire.h = h /\ wire.phase = "pollTrans" /\ wire.n = MaxRetries

\* The handshakes that start in a step.
Starting == {h \in HsIds : hs[h].pc = "unused" /\ hs'[h].pc # "unused"}

\* C16: a call of requestFederatedData is at most one handshake and one data-plane
\* request.  A handshake starts only in the step in which a call enters, one at
\* most, and it is the one the call awaits; a call that awaits goes on only to send
\* its data-plane request or to fail; a call whose data-plane request is answered
\* ends, returning or failing; the failure of the awaited handshake and the answers
\* 401 and 403 end the call in failure in a step that starts no handshake and sends
\* no control-plane request.
C16_NoRetryWithinCall ==
  [][/\ Cardinality(Starting) <= 1
     /\ \A h \in Starting :
          \E c \in CallIds : calls[c].pc \in Finished /\ calls'[c].pc = "await" /\ calls'[c].h = h
     /\ \A c \in CallIds :
          /\ (calls[c].pc = "await" /\ calls'[c] # calls[c])
               => /\ calls'[c].pc \in {"fetch", "failed"}
                  /\ calls'[c].h = calls[c].h
                  /\ Starting = {} /\ wire' = wire
                  /\ hs[calls[c].h].pc = "rejected" => calls'[c].pc = "failed"
          /\ (calls[c].pc = "fetch" /\ calls'[c] # calls[c])
               => /\ calls'[c].pc \in {"returned", "failed"}
                  /\ calls'[c].h = calls[c].h
                  /\ Starting = {} /\ wire' = wire
                  /\ calls'[c].status \in {401, 403} => calls'[c].pc = "failed"]_vars

\* C16 witness: a call was answered 401 on the channel of a resolved handshake and has
\* failed; no handshake is in progress and no other call is under way.
C16_Witness ==
  \E c \in CallIds :
    /\ calls[c].pc = "failed" /\ calls[c].status = 401
    /\ hs[calls[c].h].pc = "resolved"
    /\ edrPromiseCache = NoEntry /\ InProgress = {}
    /\ \A d \in CallIds \ {c} : calls[d].pc \in Finished

\* C18: a transfer request is sent only on a status of the negotiation that reports
\* FINALIZED, and its contractId is the contractAgreementId of that status; FINALIZED
\* reported by the thirtieth status of the negotiation polling sends it too.
C18_TransferOnFinalized ==
  /\ wire.req.kind = "transfer"
       => /\ wire.phase = "pollNeg" /\ wire.resp.kind = "status"
          /\ wire.resp.state = "FINALIZED"
          /\ wire.req.contractId = wire.resp.contractAgreementId
  /\ (wire.phase = "pollNeg" /\ wire.resp.kind = "status" /\ wire.resp.state = "FINALIZED"
        /\ wire.n = MaxRetries)
       => (wire.req.kind = "transfer" /\ wire.req.contractId = wire.resp.contractAgreementId)

\* C19: a call that enters while the cache holds a resolved handshake awaits that
\* handshake, in a step that starts no handshake, sends no control-plane request and
\* leaves the cache as it is; and a call that sends its data-plane request sends it
\* on the channel of the handshake it awaited, in a step that sends no control-plane
\* request either.
C19_ResolvedChannelReused ==
  [][\A c \in CallIds :
       /\ (calls[c].pc \in Finished /\ calls'[c].pc = "await"
             /\ edrPromiseCache # NoEntry /\ hs[edrPromiseCache].pc = "resolved")
            => /\ calls'[c].h = edrPromiseCache
               /\ edrPromiseCache' = edrPromiseCache
               /\ hs' = hs /\ wire' = wire
               /\ mq' = <<c>>
       /\ (calls[c].pc = "await" /\ calls'[c].pc = "fetch")
            => /\ calls'[c].edr = hs[calls[c].h].edr
               /\ calls'[c].edr \in Channels
               /\ hs' = hs /\ wire' = wire]_vars

\* C19 witness: a call has returned on the channel of the cached, resolved handshake,
\* and a call that entered afterwards is about to resume on the same handshake, the
\* only one that ever ran.
C19_Witness ==
  \E c, d \in CallIds :
    /\ edrPromiseCache # NoEntry /\ hs[edrPromiseCache].pc = "resolved"
    /\ calls[d].pc = "returned" /\ calls[d].h = edrPromiseCache
    /\ mq = <<c>> /\ calls[c].pc = "await" /\ calls[c].h = edrPromiseCache
    /\ \A h \in HsIds \ {edrPromiseCache} : hs[h].pc = "unused"

\* C23: the step in which a call is answered 401 or 403 on the channel of a handshake
\* that is not the one in the cache leaves the cache as it is.
C23_EvictionSparesNewerEntry ==
  [][\A c \in CallIds :
       (calls[c].pc = "fetch" /\ calls'[c].pc = "failed" /\ calls'[c].status \in {401, 403}
          /\ edrPromiseCache # calls[c].h)
         => edrPromiseCache' = edrPromiseCache]_vars

\* C24: the step in which a call is answered a failure other than 401 and 403 ends
\* the call in failure and leaves the cache and the handshakes as they are; the call
\* that enters next awaits the same handshake, starts none and sends no control-plane
\* request.
C24_OtherFailureKeepsEntry ==
  [][\A c \in CallIds :
       /\ (calls[c].pc = "fetch" /\ calls'[c] # calls[c]
             /\ ~IsOk(calls'[c].status) /\ calls'[c].status \notin {0, 401, 403})
            => /\ calls'[c].pc = "failed"
               /\ edrPromiseCache' = edrPromiseCache /\ edrPromiseCache = calls[c].h
               /\ hs' = hs
       /\ (calls[c].pc = "failed" /\ calls[c].err = "http" /\ calls[c].status \notin {401, 403}
             /\ calls'[c].pc = "await")
            => /\ calls'[c].h = calls[c].h
               /\ hs[calls[c].h].pc = "resolved"
               /\ hs' = hs /\ wire' = wire /\ edrPromiseCache' = edrPromiseCache]_vars

\* C24 witness: a call was answered 500 on the channel of the only handshake that ever
\* ran, which is still the resolved entry of the cache.
C24_Witness ==
  \E c \in CallIds :
    /\ calls[c].pc = "failed" /\ calls[c].err = "http" /\ calls[c].status = 500
    /\ edrPromiseCache = calls[c].h /\ hs[edrPromiseCache].pc = "resolved"
    /\ \A h \in HsIds \ {edrPromiseCache} : hs[h].pc = "unused"

\* C21: among the handshakes started while one cohort listing is served, none follows
\* one that failed.
C21_NoSecondHandshakeInListing ==
  inbound.route = "cohorts" =>
    \A g, h \in HsIds :
      (inbound.base < g /\ g < h /\ hs[g].pc = "rejected") => hs[h].pc = "unused"

\* A piece of the path is the sourceKey of a node, after a "/" or before one.
NamesNode(urlPath) ==
  \E j \in 1..Len(FEDERATED_NODES), i \in 1..(Len(urlPath) - 1) :
    \/ urlPath[i] = "/" /\ urlPath[i + 1] = FEDERATED_NODES[j].sourceKey
    \/ urlPath[i] = FEDERATED_NODES[j].sourceKey /\ urlPath[i + 1] = "/"

\* The path holds /generate/.
NamesGenerate(urlPath) ==
  \E i \in 1..(Len(urlPath) - 2) :
    urlPath[i] = "/" /\ urlPath[i + 1] = "generate" /\ urlPath[i + 2] = "/"

\* C22: every step of the router on a request for which requestFederatedData has not
\* been called leaves the cache, the handshakes and the calls as they are.  Such are:
\* the listing of the sources; a definition with an id below LocalIdLimit; a path
\* that names no node, which goes to the proxy; and a path that names a node and
\* holds /generate/, which is answered 200 with a status object (STARTING, progress
\* 0) in the step in which it reaches the middleware, with no suspension.
C22_NonRemoteRequestsLeaveCache ==
  [][/\ (inbound' # inbound /\ inbound'.requests = 0)
          => UNCHANGED <<edrPromiseCache, hs, calls, waiters, mq, wire>>
     /\ inbound'.route = "sources" => inbound'.requests = 0
     /\ (inbound'.route = "cohort" /\ inbound'.idStr.digits /\ inbound'.idStr.n < LocalIdLimit)
          => inbound'.requests = 0
     /\ (inbound'.route = "use" /\ ~NamesNode(inbound'.urlPath))
          => (inbound'.requests = 0 /\ inbound'.pc = "proxied")
     /\ (inbound'.route = "use" /\ NamesNode(inbound'.urlPath) /\ NamesGenerate(inbound'.urlPath))
          => /\ inbound'.requests = 0
             /\ inbound.pc \notin {"local", "node", "remote"}
             /\ inbound'.pc = "done" /\ inbound'.status = 200
             /\ inbound'.body[1].status = "STARTING" /\ inbound'.body[1].progress = 0]_vars

\* C22 witness: a cohort generation on hClinico has been answered with the status
\* object while the cache holds a resolved handshake.
C22_Witness ==
  /\ inbound.route = "use" /\ inbound.pc = "done" /\ inbound.status = 200
  /\ inbound.urlPath = GeneratePath("hClinico")
  /\ inbound.requests = 0
  /\ inbound.body[1].status = "STARTING"
  /\ edrPromiseCache # NoEntry /\ hs[edrPromiseCache].pc = "resolved"

====
